---- MODULE Spec2Model ----
(***************************************************************************)
(* A model of scripts/clone_list_validate.py: the validation run (main),   *)
(* the annotation client (add_comment) and its retry loop (request_retry). *)
(*                                                                         *)
(* Strings are modelled as sequences of string tokens, so that the code's  *)
(* concatenations, comparisons and replacements are computed and not       *)
(* assumed.  The call stack under main is explicit: add_comment and        *)
(* request_retry call each other recursively in the source.                *)
(***************************************************************************)
EXTENDS Integers, Sequences, FiniteSets, TLC

(***************************************************************************)
(* Bounds of the model                                                     *)
(***************************************************************************)
MaxFiles == 2
MaxLine == 2
MaxErrors == 2
MaxMergeErrors == 3
MaxEntries == 3
MaxChanged == 2
MaxPath == 5
MaxVersion == 10

VARIABLES
    files,            \* main: the filtered list of changed files
    fi,               \* main: index in files of the file of the for loop
    pc,               \* main: position in main
    doc,              \* main: what was read from the current file
    error_messages,   \* main: dict line -> {comment, errors}, in insertion order
    em_i,             \* main: position of the loop over error_messages.items()
    searchterm_dupes, \* main: dict searchTerm -> lines, in insertion order
    group_dupes,      \* main: dict group -> lines, in insertion order
    d_i,              \* main: position of the loop over a dupes dict
    c_i,              \* main: position of the loop over a group's candidate lines
    response,         \* main: the variable response
    comment,          \* main: the resolved comment of the error of the errors loop
    parent_comment_json_path, \* main: the parent lookup path of that error
    test_succeeded,   \* main: the variable test_succeeded
    stack,            \* the frames of add_comment / request_retry under main
    comment_post,     \* the outcome of the most recent requests.post
    exited,           \* whether the process has terminated
    exit_code,        \* its exit status, once exited
    tracing,          \* history: whether log is recorded in this behaviour
    log,              \* history: the POSTs and waits of the current annotation request
    npost,            \* history: POSTs issued for the current annotation request
    posted,           \* history: whether the run has issued a POST
    verdicts,         \* history: the clean state of each file that reached line 524
    docs_clean        \* history: every document read so far is valid and clean

vars == <<files, fi, pc, doc, error_messages, em_i, searchterm_dupes, group_dupes,
          d_i, c_i, response, comment, parent_comment_json_path, test_succeeded, stack, comment_post, exited,
          exit_code, tracing, log, npost, posted, verdicts, docs_clean>>

(***************************************************************************)
(* Text                                                                    *)
(***************************************************************************)
\* the blank-line separator '\n\n'
Sep == "\n\n"

\* str.replace(old, new) for a one-token old
Replace(s, old, new) == [i \in 1..Len(s) |-> IF s[i] = old THEN new ELSE s[i]]

RECURSIVE Flatten(_)
Flatten(ss) == IF ss = <<>> THEN <<>> ELSE Head(ss) \o Flatten(Tail(ss))

\* "\n".join(str(f"* {x}") for x in lines)
BulletLines(lines) ==
    Flatten([i \in 1..Len(lines) |->
        IF i = 1 THEN <<"* ", ToString(lines[i])>>
                 ELSE <<"\n", "* ", ToString(lines[i])>>])

\* f'> {error["errors"]}': the repr of a list of strings
ListRepr(msgs) ==
    <<"[">> \o Flatten([i \in 1..Len(msgs) |->
        IF i = 1 THEN <<msgs[i]>> ELSE <<", ", msgs[i]>>]) \o <<"]">>

Header == "### :gear: Automated review comment"

InvalidJSONComment(lineno) ==
    <<Header, Sep, "Invalid JSON found on or before line (", ToString(lineno),
      "). Fix the error to continue.", Sep,
      "There might be more invalid JSON in this file, but only one line can be checked for at a time.">>

validation_comment(error) ==
    <<Header, Sep, "This line doesn't follow the clone list schema.", Sep,
      "Here's the comment from that part of the schema:", Sep, "> ">>
    \o Replace(error.comment, Sep, "\n>\n>")
    \o <<Sep, "Here's the validation error:", Sep, "> ">>
    \o ListRepr(error.errors)

duplicate_searchterm_comment(searchterm_name, searchterm_lines) ==
    <<Header, Sep, "Found the search term ", searchterm_name,
      " multiple times on the following lines:", Sep>>
    \o BulletLines(searchterm_lines)
    \o <<Sep, "Search terms for titles should only be associated with one group, and not be repeated within that group.">>

duplicate_group_comment(group_name, group_lines) ==
    <<Header, Sep, "Found the group ", group_name,
      " multiple times on the following lines:", Sep>>
    \o BulletLines(group_lines)
    \o <<Sep, "There should only be one instance of a group name in a variants array.">>

(***************************************************************************)
(* Documents: what a target file holds.  parse is the outcome of          *)
(* json.load; errors is what validator.iter_errors yields, each error with *)
(* its json_path, the line the source map resolves it to, the $comment of *)
(* its schema node (schema_comment: <<>> when the node has none, else the *)
(* one comment) and what the parent lookup finds (parent_comments);       *)
(* titles_searchterms and groups are the jsonpath matches; cloneliststr   *)
(* is the text, each line the set of literal fragments                    *)
(* {"searchTerm": "<value>" and "group": "<value>" it contains.           *)
(* A file does not change during the run, so what main has not looked at  *)
(* yet is left open (no matches, no fragments) and is chosen when main    *)
(* first looks at it: the errors when the file is opened, the searchTerm  *)
(* matches and fragments at line 407, those of group at line 465.         *)
(***************************************************************************)
\* the array indices of the paths
Indices == {"0"}

\* error.json_path of an error at the path steps (keys and array indices)
JsonPath(steps) ==
    <<"$">> \o Flatten([i \in 1..Len(steps) |->
                IF steps[i] \in Indices THEN <<"[", steps[i], "]">> ELSE <<".", steps[i]>>])

RawErrors ==
    [json_path : {JsonPath(<<"variants", "0", "group">>)}, line : 1..MaxLine,
     schema_comment : {<< <<"A">> >>}, parent_comments : {<<>>},
     local_names_str : {<<>>}, region_names_str : {<<>>}, message : {"m"}]

RECURSIVE SeqsUpTo(_, _)
SeqsUpTo(S, n) ==
    IF n = 0 THEN {<<>>}
    ELSE LET shorter == SeqsUpTo(S, n - 1)
         IN  shorter \cup {Append(s, x) : s \in {t \in shorter : Len(t) = n - 1}, x \in S}

Fragment(key, value) == [key |-> key, value |-> value]

\* n entries of one value, on the lines 1..n; literal: written in the form the
\* line scan looks for
Occurrences == {[n |-> 1, literal |-> TRUE]}
               \cup [n : 2..MaxLine, literal : BOOLEAN]

BlankText == [i \in 1..MaxLine |-> {}]

\* the text with the fragments of the entries occ of a value
WithFragments(text, key, value, occ) ==
    [i \in 1..MaxLine |->
        text[i] \cup (IF occ.literal /\ i <= occ.n THEN {Fragment(key, value)} ELSE {})]

TextOf(st, gr) ==
    WithFragments(WithFragments(BlankText, "searchTerm", "Foo", st), "group", "G", gr)

Matches(value, occ) == [i \in 1..occ.n |-> value]

ValidDocuments ==
    {[parse |-> "ok", lineno |-> 0, errors |-> es, titles_searchterms |-> <<>>,
      groups |-> <<>>, cloneliststr |-> BlankText] :
        es \in SeqsUpTo(RawErrors, MaxErrors)}

UnreadableDocuments ==
    {[parse |-> p.parse, lineno |-> p.lineno, errors |-> <<>>, titles_searchterms |-> <<>>,
      groups |-> <<>>, cloneliststr |-> <<>>] :
        p \in [parse : {"JSONDecodeError"}, lineno : 1..MaxLine]
              \cup [parse : {"Exception"}, lineno : {0}]}

Documents == ValidDocuments \cup UnreadableDocuments

NoDocument ==
    [parse |-> "none", lineno |-> 0, errors |-> <<>>, titles_searchterms |-> <<>>,
     groups |-> <<>>, cloneliststr |-> <<>>]

\* the values a sequence holds more than once (the seen / dupes loop)
Dupes(values) ==
    {values[j] : j \in {k \in 1..Len(values) : \E h \in 1..(k - 1) : values[h] = values[k]}}

\* valid JSON that satisfies the schema and, as far as looked at, holds no
\* searchTerm and no group value twice
DocumentClean(d) ==
    d.parse = "ok" /\ d.errors = <<>> /\ Dupes(d.titles_searchterms) = {}
    /\ Dupes(d.groups) = {}

(***************************************************************************)
(* Schema errors: the dict error_messages (main, lines 291-381)           *)
(***************************************************************************)
\* the position of a line's entry in the dict, 0 when it has none
EntryOf(em, line) ==
    IF \E i \in 1..Len(em) : em[i].line = line
    THEN CHOOSE i \in 1..Len(em) : em[i].line = line
    ELSE 0

\* re.sub("\[[0-9]+\]", "", s)
RECURSIVE StripIndices(_)
StripIndices(s) ==
    IF s = <<>> THEN <<>>
    ELSE IF Len(s) >= 3 /\ s[1] = "[" /\ s[2] \in Indices /\ s[3] = "]"
    THEN StripIndices(SubSeq(s, 4, Len(s)))
    ELSE <<Head(s)>> \o StripIndices(Tail(s))

\* old in s
Contains(s, old) ==
    \E i \in 1..(Len(s) - Len(old) + 1) : SubSeq(s, i, i + Len(old) - 1) = old

\* str.replace(old, new) for an old of several tokens
RECURSIVE ReplaceAll(_, _, _)
ReplaceAll(s, old, new) ==
    IF Len(s) < Len(old) THEN s
    ELSE IF SubSeq(s, 1, Len(old)) = old
    THEN new \o ReplaceAll(SubSeq(s, Len(old) + 1, Len(s)), old, new)
    ELSE <<Head(s)>> \o ReplaceAll(Tail(s), old, new)

CommentKey == "[\"$comment\"]"

\* the special case eliding the titles segment only
ParentCommentJsonPath_titles_only(json_path) ==
    LET path == Replace(StripIndices(json_path), ".", "..") \o <<CommentKey>>
    IN  IF Contains(path, <<"$", "..", "variants", "..", "titles", "..", "filters", "..">>)
        THEN ReplaceAll(path, <<"..", "variants", "..", "titles">>, <<"..", "variants">>)
        ELSE path

\* lines 305-312: the path of the parent lookup
ParentCommentJsonPath(json_path) ==
    LET path == Replace(StripIndices(json_path), ".", "..") \o <<CommentKey>>
    IN  IF Contains(path, <<"$", "..", "variants", "..", "titles", "..", "filters", "..">>)
        THEN ReplaceAll(path, <<"..", "variants", "..", "titles">>, <<>>)
        ELSE path

\* the comment of the parent lookup taken first
ResolveComment_parent_first(error) ==
    LET parent_comment == IF error.parent_comments # <<>> THEN error.parent_comments[1]
                          ELSE <<>>
    IN  IF parent_comment # <<>> THEN parent_comment
        ELSE IF error.schema_comment # <<>> THEN error.schema_comment[1]
        ELSE <<>>

\* lines 316-324: the comment of an error
ResolveComment(error) ==
    LET parent_comment == IF error.parent_comments # <<>> THEN error.parent_comments[1]
                          ELSE <<>>
    IN  IF error.schema_comment # <<>> THEN error.schema_comment[1]
        ELSE IF parent_comment # <<>> THEN parent_comment
        ELSE <<>>

\* lines 335-341: a line's comment after one more error with this comment
MergeComment(old, new) ==
    IF old # new THEN old \o <<Sep>> \o new ELSE old

\* lines 354-357 and 372-375: the enumerated-value hints
WithHints(text, e) ==
    LET c1 == IF e.local_names_str # <<>>
              THEN text \o <<Sep, "The valid languages are as follows:", Sep>>
                        \o e.local_names_str
              ELSE text
    IN  IF e.region_names_str # <<>>
        THEN c1 \o <<Sep, "The valid regions are as follows:", Sep>> \o e.region_names_str
        ELSE c1

\* the loop with the list of messages assigned, not appended to
AddError_assign(em, e) ==
    LET i == EntryOf(em, e.line)
    IN  IF i = 0
        THEN Append(em, [line |-> e.line, comment |-> WithHints(ResolveComment(e), e),
                         errors |-> <<e.message>>])
        ELSE [em EXCEPT ![i] = [line |-> e.line,
                                comment |-> WithHints(MergeComment(em[i].comment,
                                                                   ResolveComment(e)), e),
                                errors |-> <<e.message>>]]

\* lines 330-381: one iteration of the loop over the validator's errors
AddError(em, e) ==
    LET i == EntryOf(em, e.line)
    IN  IF i = 0
        THEN Append(em, [line |-> e.line, comment |-> WithHints(ResolveComment(e), e),
                         errors |-> <<e.message>>])
        ELSE [em EXCEPT ![i] = [line |-> e.line,
                                comment |-> WithHints(MergeComment(em[i].comment,
                                                                   ResolveComment(e)), e),
                                errors |-> Append(em[i].errors, e.message)]]

\* lines 291-381: the whole loop
RECURSIVE AddErrors(_, _)
AddErrors(em, errors) ==
    IF errors = <<>> THEN em ELSE AddErrors(AddError(em, Head(errors)), Tail(errors))

(***************************************************************************)
(* Duplicates: the line scans (main, lines 419-427 and 478-486)           *)
(***************************************************************************)
\* the orders in which a Python set may be iterated
Orders(S) == {o \in SeqsUpTo(S, Cardinality(S)) :
                Len(o) = Cardinality(S) /\ \A x \in S : \E i \in 1..Len(o) : o[i] = x}

DupeEntryOf(dict, key) ==
    IF \E i \in 1..Len(dict) : dict[i].key = key
    THEN CHOOSE i \in 1..Len(dict) : dict[i].key = key
    ELSE 0

\* the inner loop, for dupe in dupes, on line i
RECURSIVE ScanLine(_, _, _, _, _)
ScanLine(dict, line, i, key, order) ==
    IF order = <<>> THEN dict
    ELSE LET dupe == Head(order)
             at == DupeEntryOf(dict, dupe)
             next == IF Fragment(key, dupe) \notin line THEN dict
                     ELSE IF at = 0 THEN Append(dict, [key |-> dupe, lines |-> <<i>>])
                     ELSE [dict EXCEPT ![at].lines = Append(@, i)]
         IN  ScanLine(next, line, i, key, Tail(order))

\* the outer loop, for i, line in enumerate(cloneliststr.split('\n'), start=1)
RECURSIVE ScanLines(_, _, _, _, _)
ScanLines(dict, text, i, key, order) ==
    IF i > Len(text) THEN dict
    ELSE ScanLines(ScanLine(dict, text[i], i, key, order), text, i + 1, key, order)

DupeLines(text, key, order) == ScanLines(<<>>, text, 1, key, order)

(***************************************************************************)
(* The annotation client: add_comment and request_retry                   *)
(***************************************************************************)
\* what requests.post can end in: a response with a status, or an exception
Statuses == {200, 400, 401, 404, 422, 429, 500}

Outcomes ==
    [exc : {"none"}, status_code : Statuses]
    \cup [exc : {"Timeout", "ConnectionError", "Exception"}, status_code : {0}]

NoOutcome == [exc |-> "none", status_code |-> 0]

\* a schedule with one more retry
progressive_timeout_longer == <<0, 60, 300, 300, -1>>

\* the schedule with its second and third delays swapped
progressive_timeout_swapped == <<0, 300, 60, -1>>

\* request_retry, line 167
progressive_timeout == <<0, 60, 300, -1>>

\* a call that leaves line_number at its default, 0
AddCommentFrame_default_line(timeout, filepath, pr_comment, line_number, dupe_check) ==
    [fn |-> "add_comment", timeout |-> timeout, filepath |-> filepath,
     pr_comment |-> pr_comment, line_number |-> 0,
     dupe_check |-> dupe_check, status_code |-> 0]

AddCommentFrame(timeout, filepath, pr_comment, line_number, dupe_check) ==
    [fn |-> "add_comment", timeout |-> timeout, filepath |-> filepath,
     pr_comment |-> pr_comment, line_number |-> line_number,
     dupe_check |-> dupe_check, status_code |-> 0]

\* a retry that always falls back to the file
RequestRetryFrame_file_scope(timeout, filepath, pr_comment, line_number) ==
    [fn |-> "request_retry", timeout |-> timeout, filepath |-> filepath,
     pr_comment |-> pr_comment, line_number |-> 0,
     dupe_check |-> FALSE, status_code |-> 418]

\* a retry whose mock response is a success
RequestRetryFrame_mock_ok(timeout, filepath, pr_comment, line_number) ==
    [fn |-> "request_retry", timeout |-> timeout, filepath |-> filepath,
     pr_comment |-> pr_comment, line_number |-> line_number,
     dupe_check |-> FALSE, status_code |-> 200]

\* request_retry's kwargs, and its mock response (lines 170-171)
RequestRetryFrame(timeout, filepath, pr_comment, line_number) ==
    [fn |-> "request_retry", timeout |-> timeout, filepath |-> filepath,
     pr_comment |-> pr_comment, line_number |-> line_number,
     dupe_check |-> FALSE, status_code |-> 418]

\* add_comment, lines 35-52: the JSON that is posted
Data(f) ==
    IF f.line_number = 0
    THEN [body |-> f.pr_comment, path |-> f.filepath, line |-> 0, subject_type |-> "file"]
    ELSE [body |-> f.pr_comment, path |-> f.filepath, line |-> f.line_number,
          subject_type |-> "line"]

\* Response.raise_for_status
RaisesHTTPError(status_code) == 400 <= status_code /\ status_code < 600

Return == [do |-> "return", line_number |-> 0]
SysExit == [do |-> "exit", line_number |-> 0]
Retry(line_number) == [do |-> "retry", line_number |-> line_number]

\* the handlers with an unexpected exception of a dupe_check POST passed over
Disposition_exception_passed(f, o) ==
    CASE o.exc = "Timeout" -> Retry(f.line_number)
      [] o.exc = "ConnectionError" -> Retry(f.line_number)
      [] o.exc = "Exception" -> IF f.dupe_check THEN Return ELSE SysExit
      [] OTHER ->
            IF f.dupe_check THEN Return
            ELSE IF ~RaisesHTTPError(o.status_code) THEN Return
            ELSE IF o.status_code = 401 THEN SysExit
            ELSE IF o.status_code = 404 THEN SysExit
            ELSE IF o.status_code = 422
                 THEN IF f.line_number = 0 THEN Return ELSE Retry(0)
            ELSE IF o.status_code = 429 THEN Retry(f.line_number)
            ELSE IF o.status_code \div 100 = 5 THEN Retry(f.line_number)
            ELSE Return

\* add_comment, lines 67-151: what follows the outcome o of the POST of frame f
Disposition(f, o) ==
    CASE o.exc = "Timeout" -> Retry(f.line_number)
      [] o.exc = "ConnectionError" -> Retry(f.line_number)
      [] o.exc = "Exception" -> SysExit
      [] OTHER ->
            IF f.dupe_check THEN Return
            ELSE IF ~RaisesHTTPError(o.status_code) THEN Return
            ELSE IF o.status_code = 401 THEN SysExit
            ELSE IF o.status_code = 404 THEN SysExit
            ELSE IF o.status_code = 422
                 THEN IF f.line_number = 0 THEN Return ELSE Retry(0)
            ELSE IF o.status_code = 429 THEN Retry(f.line_number)
            ELSE IF o.status_code \div 100 = 5 THEN Retry(f.line_number)
            ELSE Return

Top == stack[Len(stack)]
Pop == SubSeq(stack, 1, Len(stack) - 1)

Record(event) == IF tracing THEN Append(log, event) ELSE log

\* the locals of one iteration of the loop over the validator's errors
errorLocals == <<comment, parent_comment_json_path>>

mainVars == <<files, fi, pc, doc, error_messages, em_i, searchterm_dupes, group_dupes,
              d_i, c_i, response, errorLocals, test_succeeded, verdicts, docs_clean>>

\* sys.exit(1)
Exit1 == exited' = TRUE /\ exit_code' = 1

\* add_comment, lines 19-151: one POST and the handling of its outcome
add_comment ==
    /\ ~exited
    /\ stack # <<>>
    /\ Top.fn = "add_comment"
    /\ \E o \in Outcomes :
        LET f == Top
            d == Disposition(f, o)
        IN  /\ comment_post' = o
            /\ log' = Record([ev |-> "POST", data |-> Data(f), timeout |-> f.timeout,
                              dupe_check |-> f.dupe_check, outcome |-> o, secs |-> 0])
            /\ npost' = npost + 1
            /\ posted' = TRUE
            /\ IF d.do = "exit"
               THEN Exit1 /\ UNCHANGED stack
               ELSE /\ UNCHANGED <<exited, exit_code>>
                    /\ stack' = IF d.do = "return" THEN Pop
                                ELSE Append(stack, RequestRetryFrame(f.timeout, f.filepath,
                                                        f.pr_comment, d.line_number))
    /\ UNCHANGED <<mainVars, tracing>>

\* request_retry, lines 173-189: one iteration of the while loop, up to the call
request_retry ==
    /\ ~exited
    /\ stack # <<>>
    /\ Top.fn = "request_retry"
    /\ LET f == Top
       IN  IF f.status_code = 200
           THEN /\ stack' = Pop
                /\ UNCHANGED <<log, exited, exit_code>>
           ELSE IF progressive_timeout[f.timeout + 1] = -1
           THEN /\ Exit1
                /\ UNCHANGED <<stack, log>>
           ELSE /\ log' = Record([ev |-> "wait", data |-> Data(f), timeout |-> f.timeout,
                                  dupe_check |-> FALSE, outcome |-> NoOutcome,
                                  secs |-> progressive_timeout[f.timeout + 1]])
                /\ stack' = Append([stack EXCEPT ![Len(stack)].timeout = f.timeout + 1],
                                   AddCommentFrame(f.timeout + 1, f.filepath, f.pr_comment,
                                                   f.line_number, FALSE))
                /\ UNCHANGED <<exited, exit_code>>
    /\ UNCHANGED <<mainVars, tracing, comment_post, npost, posted>>

(***************************************************************************)
(* The validation run: main                                               *)
(***************************************************************************)
\* a path, as its segments
FileName(i) == <<"clonelists", "/", ToString(i), ".json">>

Running == ~exited /\ stack = <<>>

\* a call of add_comment from main, with timeout=0
Call(filepath, pr_comment, line_number, dupe_check) ==
    /\ stack' = <<AddCommentFrame(0, filepath, pr_comment, line_number, dupe_check)>>
    /\ log' = <<>>
    /\ npost' = 0

clientVars == <<stack, comment_post, log, npost, posted>>

\* lines 230-231: the head of the for loop
ForFile ==
    /\ Running
    /\ pc = "for"
    /\ IF fi = Len(files)
       THEN pc' = "end" /\ UNCHANGED fi
       ELSE /\ fi' = fi + 1
            /\ pc' = IF files[fi + 1] # <<"hash.json">> THEN "open" ELSE "for"
    /\ UNCHANGED <<errorLocals, files, doc, error_messages, em_i, searchterm_dupes, group_dupes, d_i,
                   c_i, response, test_succeeded, verdicts, docs_clean, clientVars,
                   exited, exit_code, tracing>>

\* lines 235-381: read and parse the file; on success, validate it against the schema
\* (the locals of the errors loop are written before they are read in each
\* iteration and are dead after the loop: they are not kept here)
OpenFile ==
    /\ Running
    /\ pc = "open"
    /\ \E d \in Documents :
        /\ doc' = d
        /\ docs_clean' = (docs_clean /\ DocumentClean(d))
        /\ IF d.parse = "JSONDecodeError"
           THEN /\ error_messages' = <<[line |-> d.lineno,
                                        comment |-> InvalidJSONComment(d.lineno),
                                        errors |-> <<>>]>>
                /\ Call(files[fi], InvalidJSONComment(d.lineno), d.lineno, FALSE)
                /\ pc' = "json_exit"
                /\ UNCHANGED <<exited, exit_code>>
           ELSE IF d.parse = "Exception"
           THEN /\ Exit1
                /\ UNCHANGED <<error_messages, pc, stack, log, npost>>
           ELSE /\ error_messages' = AddErrors(<<>>, d.errors)
                /\ pc' = "post_errors"
                /\ UNCHANGED <<exited, exit_code, stack, log, npost>>
    /\ em_i' = 0
    /\ UNCHANGED <<errorLocals, files, fi, searchterm_dupes, group_dupes, d_i, c_i, response,
                   test_succeeded, verdicts, comment_post, posted, tracing>>

\* the invalid-JSON handler going on with the next file
JsonExit_continue ==
    /\ Running
    /\ pc = "json_exit"
    /\ pc' = "for"
    /\ test_succeeded' = FALSE
    /\ UNCHANGED <<errorLocals, files, fi, doc, error_messages, em_i, searchterm_dupes, group_dupes,
                   d_i, c_i, response, verdicts, docs_clean, clientVars, exited,
                   exit_code, tracing>>

\* line 274: sys.exit(1) after the invalid-JSON comment
JsonExit ==
    /\ Running
    /\ pc = "json_exit"
    /\ Exit1
    /\ UNCHANGED <<mainVars, clientVars, tracing>>

\* lines 383-405: the loop over error_messages.items()
PostError ==
    /\ Running
    /\ pc = "post_errors"
    /\ IF em_i < Len(error_messages)
       THEN /\ em_i' = em_i + 1
            /\ Call(files[fi], validation_comment(error_messages[em_i + 1]),
                    error_messages[em_i + 1].line, FALSE)
            /\ UNCHANGED pc
       ELSE /\ pc' = "searchterms"
            /\ UNCHANGED <<em_i, stack, log, npost>>
    /\ UNCHANGED <<errorLocals, files, fi, doc, error_messages, searchterm_dupes, group_dupes, d_i, c_i,
                   response, test_succeeded, verdicts, docs_clean, comment_post,
                   posted, exited, exit_code, tracing>>

\* lines 407-427: the duplicate searchTerm values and their lines
DetectSearchterms ==
    /\ Running
    /\ pc = "searchterms"
    /\ \E st \in Occurrences :
        /\ doc' = [doc EXCEPT !.titles_searchterms = Matches("Foo", st),
                              !.cloneliststr = WithFragments(@, "searchTerm", "Foo", st)]
        /\ docs_clean' = (docs_clean /\ DocumentClean(doc'))
        /\ \E order \in Orders(Dupes(doc'.titles_searchterms)) :
            searchterm_dupes' = DupeLines(doc'.cloneliststr, "searchTerm", order)
    /\ d_i' = 0
    /\ c_i' = 0
    /\ pc' = "post_searchterms"
    /\ UNCHANGED <<errorLocals, files, fi, error_messages, em_i, group_dupes, response,
                   test_succeeded, verdicts, clientVars, exited, exit_code, tracing>>

\* lines 434-439 and 493-498: the comment of a duplicate group
DupeComment(key, name, lines) ==
    IF key = "searchTerm" THEN duplicate_searchterm_comment(name, lines)
    ELSE duplicate_group_comment(name, lines)

\* lines 429-463 and 488-522: one step of the loops over a dupes dict and over the
\* candidate lines of a group: take the answer of the call that returned, then
\* post to the next candidate, or go to the next group, or leave the loops
\* (response is dead after the loops: lines 446 and 505 set it before it is read)
Cycle(dupes, key, after) ==
    LET returned == c_i > 0
        answer == IF returned THEN comment_post.status_code ELSE response
        more == returned /\ answer = 422 /\ c_i < Len(dupes[d_i].lines)
    IN  IF more
        THEN /\ response' = answer
             /\ c_i' = c_i + 1
             /\ Call(files[fi], DupeComment(key, dupes[d_i].key, dupes[d_i].lines),
                     dupes[d_i].lines[c_i + 1], TRUE)
             /\ UNCHANGED <<d_i, pc>>
        ELSE IF d_i < Len(dupes)
        THEN /\ response' = 0
             /\ d_i' = d_i + 1
             /\ c_i' = 1
             /\ Call(files[fi], DupeComment(key, dupes[d_i + 1].key, dupes[d_i + 1].lines),
                     dupes[d_i + 1].lines[1], TRUE)
             /\ UNCHANGED pc
        ELSE /\ response' = 0
             /\ d_i' = 0
             /\ c_i' = 0
             /\ pc' = after
             /\ UNCHANGED <<stack, log, npost>>

PostSearchterm ==
    /\ Running
    /\ pc = "post_searchterms"
    /\ Cycle(searchterm_dupes, "searchTerm", "groups")
    /\ UNCHANGED <<errorLocals, files, fi, doc, error_messages, em_i, searchterm_dupes, group_dupes,
                   test_succeeded, verdicts, docs_clean, comment_post, posted,
                   exited, exit_code, tracing>>

\* lines 465-486: the duplicate group names and their lines
DetectGroups ==
    /\ Running
    /\ pc = "groups"
    /\ \E gr \in Occurrences :
        /\ doc' = [doc EXCEPT !.groups = Matches("G", gr),
                              !.cloneliststr = WithFragments(@, "group", "G", gr)]
        /\ docs_clean' = (docs_clean /\ DocumentClean(doc'))
        /\ \E order \in Orders(Dupes(doc'.groups)) :
            group_dupes' = DupeLines(doc'.cloneliststr, "group", order)
    /\ d_i' = 0
    /\ c_i' = 0
    /\ pc' = "post_groups"
    /\ UNCHANGED <<errorLocals, files, fi, error_messages, em_i, searchterm_dupes, response,
                   test_succeeded, verdicts, clientVars, exited, exit_code, tracing>>

PostGroup ==
    /\ Running
    /\ pc = "post_groups"
    /\ Cycle(group_dupes, "group", "verdict")
    /\ UNCHANGED <<errorLocals, files, fi, doc, error_messages, em_i, searchterm_dupes, group_dupes,
                   test_succeeded, verdicts, docs_clean, comment_post, posted,
                   exited, exit_code, tracing>>

\* line 524: the file's clean state
FileClean == error_messages = <<>> /\ group_dupes = <<>> /\ searchterm_dupes = <<>>

\* the verdict of the last file overwriting test_succeeded
Verdict_last_file ==
    /\ Running
    /\ pc = "verdict"
    /\ test_succeeded' = FileClean
    /\ verdicts' = Append(verdicts, FileClean)
    /\ doc' = NoDocument
    /\ error_messages' = <<>>
    /\ searchterm_dupes' = <<>>
    /\ group_dupes' = <<>>
    /\ em_i' = 0
    /\ comment_post' = NoOutcome
    /\ log' = <<>>
    /\ npost' = 0
    /\ pc' = "for"
    /\ UNCHANGED <<errorLocals, files, fi, d_i, c_i, response, stack, posted, docs_clean, exited,
                   exit_code, tracing>>

\* lines 524-527; the file's dicts and document are dead from here on
Verdict ==
    /\ Running
    /\ pc = "verdict"
    /\ test_succeeded' = IF FileClean THEN test_succeeded ELSE FALSE
    /\ verdicts' = Append(verdicts, FileClean)
    /\ doc' = NoDocument
    /\ error_messages' = <<>>
    /\ searchterm_dupes' = <<>>
    /\ group_dupes' = <<>>
    /\ em_i' = 0
    /\ comment_post' = NoOutcome
    /\ log' = <<>>
    /\ npost' = 0
    /\ pc' = "for"
    /\ UNCHANGED <<errorLocals, files, fi, d_i, c_i, response, stack, posted, docs_clean, exited,
                   exit_code, tracing>>

\* the final test inverted
End_inverted ==
    /\ Running
    /\ pc = "end"
    /\ exited' = TRUE
    /\ exit_code' = IF test_succeeded THEN 1 ELSE 0
    /\ UNCHANGED <<mainVars, clientVars, tracing>>

\* lines 529-530, and the exit status 0 of a script that runs to its end
End ==
    /\ Running
    /\ pc = "end"
    /\ exited' = TRUE
    /\ exit_code' = IF ~test_succeeded THEN 1 ELSE 0
    /\ UNCHANGED <<mainVars, clientVars, tracing>>

InitRest ==
    /\ error_messages = <<>>
    /\ em_i = 0
    /\ searchterm_dupes = <<>>
    /\ group_dupes = <<>>
    /\ d_i = 0
    /\ c_i = 0
    /\ response = 0
    /\ comment = <<>>
    /\ parent_comment_json_path = <<>>
    /\ test_succeeded = TRUE
    /\ stack = <<>>
    /\ comment_post = NoOutcome
    /\ exited = FALSE
    /\ exit_code = 0
    /\ log = <<>>
    /\ npost = 0
    /\ posted = FALSE
    /\ verdicts = <<>>
    /\ docs_clean = TRUE

InitRun ==
    /\ fi = 0
    /\ pc = "for"
    /\ doc = NoDocument
    /\ InitRest

\* a run over up to MaxFiles changed clone lists
Init ==
    /\ files \in {[i \in 1..n |-> FileName(i)] : n \in 0..MaxFiles}
    /\ tracing = FALSE
    /\ InitRun

Next ==
    \/ ForFile
    \/ OpenFile
    \/ JsonExit
    \/ PostError
    \/ DetectSearchterms
    \/ PostSearchterm
    \/ DetectGroups
    \/ PostGroup
    \/ Verdict
    \/ End
    \/ add_comment
    \/ request_retry

Spec == Init /\ [][Next]_vars

\* a run over one changed clone list, with the requests and waits of each
\* annotation request recorded in log
InitTraced ==
    /\ files = <<FileName(1)>>
    /\ tracing = TRUE
    /\ InitRun

SpecTraced == InitTraced /\ [][Next]_vars

(***************************************************************************)
(* Reading the history of an annotation request                           *)
(***************************************************************************)
IsPost(e) == e.ev = "POST"
IsWait(e) == e.ev = "wait"
Posts == SelectSeq(log, IsPost)
PostOutcomes == [i \in 1..Len(Posts) |-> Posts[i].outcome]
WaitSecs == LET w == SelectSeq(log, IsWait) IN [i \in 1..Len(w) |-> w[i].secs]
Events == [i \in 1..Len(log) |-> log[i].ev]
Status(code) == [exc |-> "none", status_code |-> code]
Raised(exc) == [exc |-> exc, status_code |-> 0]
Is2xx(o) == o.exc = "none" /\ 200 <= o.status_code /\ o.status_code < 300
Transient(o) ==
    \/ o.exc \in {"Timeout", "ConnectionError"}
    \/ o.exc = "none" /\ (o.status_code = 429 \/ o.status_code \div 100 = 5)
\* the request that main issued was made without dupe_check
PlainRequest == Len(Posts) > 0 /\ ~Posts[1].dupe_check
\* this step issues a POST
PostStep == npost' = npost + 1

(***************************************************************************)
(* C1                                                                      *)
(***************************************************************************)
C1_Scenario ==
    PlainRequest /\ PostOutcomes = <<Status(429), Status(429), Status(429), Status(200)>>

\* C1: a request without dupe_check that is answered 429, 429, 429, 200 has
\* waited 0 s, 60 s and 300 s in that order, has issued four POSTs, and the
\* retry logic does not terminate the process: the run goes on.
C1_RetryThenSuccess ==
    C1_Scenario => /\ WaitSecs = <<0, 60, 300>>
                   /\ Len(Posts) = 4
                   /\ ~exited

(***************************************************************************)
(* C2                                                                      *)
(***************************************************************************)
C2_FourFailures ==
    PlainRequest /\ Len(Posts) = 4 /\ \A i \in 1..4 : Transient(PostOutcomes[i])

C2_State ==
    C2_FourFailures =>
        /\ Events = <<"POST", "wait", "POST", "wait", "POST", "wait", "POST">>
        /\ WaitSecs = <<0, 60, 300>>
        /\ exited => exit_code = 1
        /\ ~exited => stack # <<>> /\ Top.fn = "request_retry"

C2_Step ==
    /\ (C2_FourFailures /\ ~exited) => (exited' /\ exit_code' = 1 /\ log' = log /\ ~PostStep)
    /\ exited => (log' = log /\ ~PostStep /\ exited')

\* C2: a request without dupe_check whose initial POST and three replays all
\* fail with a timeout, a connection failure, 429 or 5xx has waited 0 s, 60 s
\* and 300 s before the replays, in that order; the step after the fourth
\* failure is the exit with status 1, and no POST is issued after it.
C2_Exhaustion == [](C2_State) /\ [][C2_Step]_vars

C2_Witness ==
    /\ exited /\ exit_code = 1
    /\ PlainRequest
    /\ PostOutcomes = <<Status(429), Raised("Timeout"), Status(500), Raised("ConnectionError")>>

(***************************************************************************)
(* C3                                                                      *)
(***************************************************************************)
\* C3: while an annotation request is being served, once one of its POSTs is
\* answered 2xx no further POST is issued and no further wait is made for it.
C3_SuccessEndsPosting ==
    [][(stack # <<>> /\ npost > 0 /\ Is2xx(comment_post)) => (log' = log /\ ~PostStep)]_vars

(***************************************************************************)
(* C4                                                                      *)
(***************************************************************************)
C4_Scenario ==
    /\ PlainRequest
    /\ Len(Posts) >= 2
    /\ Posts[1].data.line # 0
    /\ PostOutcomes[1] = Status(422)

\* C4: a request without dupe_check on a line L # 0 that is answered 422 is
\* followed by one POST that differs only in being file-scoped; if that one is
\* answered 422 too, no further POST is sent for the annotation and the process
\* has not been terminated.
C4_FallbackOnce ==
    C4_Scenario =>
        /\ Posts[2].data = [Posts[1].data EXCEPT !.line = 0, !.subject_type = "file"]
        /\ PostOutcomes[2] = Status(422) => (Len(Posts) = 2 /\ ~exited)

(***************************************************************************)
(* C5                                                                      *)
(***************************************************************************)
\* C5: whenever a POST is answered 401 or 404 the process has terminated with
\* a non-zero status.
C5_FatalStatus ==
    (npost > 0 /\ comment_post.exc = "none" /\ comment_post.status_code \in {401, 404})
        => (exited /\ exit_code = 1)

(***************************************************************************)
(* The loop over the validator's errors, one iteration a step, over errors *)
(* with different comments and enumerated-value hints                      *)
(***************************************************************************)
MergeErrors ==
    [json_path : {JsonPath(<<"variants", "0", "group">>)}, line : 1..MaxLine,
     schema_comment : {<<>>, << <<"A">> >>, << <<"B">> >>}, parent_comments : {<<>>},
     local_names_str : {<<>>, <<"en, fr">>}, region_names_str : {<<>>}, message : {"m"}]

MergeDocuments ==
    {[parse |-> "ok", lineno |-> 0, errors |-> es, titles_searchterms |-> <<"Foo">>,
      groups |-> <<"G">>, cloneliststr |-> TextOf([n |-> 1, literal |-> TRUE],
                                                  [n |-> 1, literal |-> TRUE])] :
        es \in SeqsUpTo(MergeErrors, MaxMergeErrors)}

\* lines 291-381: one iteration of for error in errors
IterError ==
    /\ pc = "iter_errors"
    /\ em_i < Len(doc.errors)
    /\ parent_comment_json_path' = ParentCommentJsonPath(doc.errors[em_i + 1].json_path)
    /\ comment' = ResolveComment(doc.errors[em_i + 1])
    /\ error_messages' = AddError(error_messages, doc.errors[em_i + 1])
    /\ em_i' = em_i + 1
    /\ UNCHANGED <<files, fi, pc, doc, searchterm_dupes, group_dupes, d_i, c_i, response,
                   test_succeeded, verdicts, docs_clean, clientVars, exited, exit_code,
                   tracing>>

InitMerge ==
    /\ files = <<FileName(1)>>
    /\ fi = 1
    /\ pc = "iter_errors"
    /\ doc \in MergeDocuments
    /\ tracing = FALSE
    /\ InitRest

NextMerge == IterError

SpecMerge == InitMerge /\ [][NextMerge]_vars

(***************************************************************************)
(* C6                                                                      *)
(***************************************************************************)
\* C6 (as claimed): a file that is not valid JSON does not end the run: when its
\* invalid-JSON comment has been posted and add_comment has returned, the
\* process has not terminated, and goes on with the next file.
C6_RunContinues ==
    (doc.parse = "JSONDecodeError" /\ stack = <<>>) => ~exited

C6_State ==
    doc.parse = "JSONDecodeError" =>
        /\ pc = "json_exit"
        /\ error_messages = <<[line |-> doc.lineno, comment |-> InvalidJSONComment(doc.lineno),
                               errors |-> <<>>]>>
        /\ searchterm_dupes = <<>> /\ group_dupes = <<>>
        /\ stack # <<>> => stack[1].pr_comment = InvalidJSONComment(doc.lineno)
        /\ stack # <<>> \/ posted
        /\ exited => (exit_code = 1 /\ posted)

C6_Step ==
    doc.parse = "JSONDecodeError" =>
        /\ doc' = doc /\ fi' = fi /\ pc' = pc
        /\ Running => (exited' /\ exit_code' = 1)

\* C6 (amended): when a target file is not valid JSON, the run posts the
\* invalid-JSON comment for it, runs neither schema validation nor duplicate
\* detection for it, and then exits with status 1: no later file is read.
C6_MalformedEndsRun == [](C6_State) /\ [][C6_Step]_vars

C6_Witness ==
    /\ exited /\ exit_code = 1
    /\ doc.parse = "JSONDecodeError"
    /\ Len(files) = 2 /\ fi = 1
    /\ stack = <<>> /\ Is2xx(comment_post)

(***************************************************************************)
(* C7                                                                      *)
(***************************************************************************)
\* C7: for a document that is not valid JSON, the first request posted carries
\* the parser's 1-based failure line, there is no schema error and no
\* duplicate group for the document, and an exit is an exit with status 1.
C7_InvalidJson ==
    doc.parse = "JSONDecodeError" =>
        /\ Len(Posts) > 0 =>
              /\ Posts[1].data.line = doc.lineno
              /\ Posts[1].data.subject_type = "line"
              /\ Posts[1].data.body = InvalidJSONComment(doc.lineno)
              /\ Posts[1].timeout = 0
              /\ doc.lineno >= 1
        /\ \A k \in 1..Len(error_messages) : error_messages[k].errors = <<>>
        /\ searchterm_dupes = <<>> /\ group_dupes = <<>>
        /\ pc = "json_exit"
        /\ exited => exit_code = 1

C7_Witness ==
    /\ doc.parse = "JSONDecodeError" /\ doc.lineno = 2
    /\ Len(Posts) = 1 /\ Posts[1].data.line = 2
    /\ exited /\ stack = <<>>

(***************************************************************************)
(* C8                                                                      *)
(***************************************************************************)
AllClean == \A i \in 1..Len(verdicts) : verdicts[i]

C8_State ==
    /\ test_succeeded <=> AllClean
    /\ (exited /\ (~AllClean \/ error_messages # <<>> \/ searchterm_dupes # <<>>
                   \/ group_dupes # <<>>)) => exit_code = 1

C8_Step == ~test_succeeded => ~test_succeeded'

\* C8: test_succeeded is the conjunction of the clean states of the files
\* judged so far and never goes back to TRUE; a process that exits after a
\* file produced a line annotation or a duplicate group exits with status 1.
C8_Verdict == [](C8_State) /\ [][C8_Step]_vars

C8_Witness ==
    /\ exited /\ pc = "end" /\ exit_code = 1
    /\ verdicts = <<FALSE, TRUE>>

(***************************************************************************)
(* C9                                                                      *)
(***************************************************************************)
\* C9: as long as every document read is valid JSON, has no schema error and
\* no duplicate searchTerm or group value, there is no line annotation and no
\* duplicate group, no POST has been issued, and an exit is an exit with
\* status 0.
C9_CleanRun ==
    docs_clean =>
        /\ error_messages = <<>> /\ searchterm_dupes = <<>> /\ group_dupes = <<>>
        /\ AllClean /\ test_succeeded
        /\ ~posted /\ stack = <<>>
        /\ exited => exit_code = 0

C9_Witness ==
    /\ exited /\ exit_code = 0 /\ docs_clean
    /\ Len(files) = 2 /\ Len(verdicts) = 2

(***************************************************************************)
(* C10                                                                     *)
(***************************************************************************)
\* how often the text c occurs in the text s
Occurs(c, s) ==
    Cardinality({i \in 1..(Len(s) - Len(c) + 1) : SubSeq(s, i, i + Len(c) - 1) = c})

\* C10: the comment of a line holds each non-empty resolved comment of the
\* errors of that line exactly once.
C10_NoRepeatedComment ==
    \A k \in 1..Len(error_messages) : \A j \in 1..em_i :
        (doc.errors[j].line = error_messages[k].line /\ ResolveComment(doc.errors[j]) # <<>>)
            => Occurs(ResolveComment(doc.errors[j]), error_messages[k].comment) = 1

(***************************************************************************)
(* C11                                                                     *)
(***************************************************************************)
\* errors with different messages, in every traversal order
TraversalErrors ==
    [json_path : {JsonPath(<<"variants", "0", "group">>)}, line : 1..MaxLine,
     schema_comment : {<< <<"A">> >>, << <<"B">> >>}, parent_comments : {<<>>},
     local_names_str : {<<>>}, region_names_str : {<<>>}, message : {"m", "n"}]

TraversalDocuments ==
    {[parse |-> "ok", lineno |-> 0, errors |-> es, titles_searchterms |-> <<"Foo">>,
      groups |-> <<"G">>, cloneliststr |-> TextOf([n |-> 1, literal |-> TRUE],
                                                  [n |-> 1, literal |-> TRUE])] :
        es \in SeqsUpTo(TraversalErrors, MaxMergeErrors)}

InitTraversal ==
    /\ files = <<FileName(1)>>
    /\ fi = 1
    /\ pc = "iter_errors"
    /\ doc \in TraversalDocuments
    /\ tracing = FALSE
    /\ InitRest

SpecTraversal == InitTraversal /\ [][NextMerge]_vars

\* the messages of the first n errors that resolve to the line, in traversal order
RECURSIVE MessagesOn(_, _)
MessagesOn(line, n) ==
    IF n = 0 THEN <<>>
    ELSE IF doc.errors[n].line = line
    THEN Append(MessagesOn(line, n - 1), doc.errors[n].message)
    ELSE MessagesOn(line, n - 1)

RECURSIVE TotalMessages(_)
TotalMessages(k) ==
    IF k = 0 THEN 0 ELSE Len(error_messages[k].errors) + TotalMessages(k - 1)

\* C11: after any number of iterations of the loop over the validator's errors,
\* every line that an error resolved to has one entry, the entry of a line holds
\* the messages of exactly the errors that resolved to it, in traversal order
\* and at least one, and the messages of all entries number as many as the
\* errors traversed.
C11_NoErrorDropped ==
    pc = "iter_errors" =>
        /\ \A k \in 1..Len(error_messages) :
              /\ error_messages[k].errors = MessagesOn(error_messages[k].line, em_i)
              /\ Len(error_messages[k].errors) >= 1
              /\ \A h \in 1..Len(error_messages) :
                    error_messages[h].line = error_messages[k].line => h = k
        /\ \A j \in 1..em_i : EntryOf(error_messages, doc.errors[j].line) # 0
        /\ TotalMessages(Len(error_messages)) = em_i

C11_Witness ==
    /\ pc = "iter_errors" /\ em_i = 3
    /\ Len(error_messages) = 2
    /\ error_messages[1].errors = <<"n", "m">>
    /\ error_messages[2].errors = <<"m">>

(***************************************************************************)
(* C12                                                                     *)
(***************************************************************************)
\* C12: for a file that is valid JSON, no annotation request is made before
\* both duplicate checks (searchTerm and group) have run: a request is being
\* served, or has been served, only once main is past line 486.
C12_DetectionFirst ==
    (doc.parse = "ok" /\ (stack # <<>> \/ npost > 0)) => pc \in {"post_groups", "verdict"}

(***************************************************************************)
(* C13                                                                     *)
(***************************************************************************)
\* the dupes dict whose groups are being posted
CurrentDupes == IF pc = "post_searchterms" THEN searchterm_dupes ELSE group_dupes

C13_DupeRequest == d_i > 0 /\ c_i > 0 /\ Len(Posts) > 0 /\ Posts[1].dupe_check

C13_State ==
    C13_DupeRequest =>
        /\ Len(Posts) = 1
        /\ \A w \in 1..Len(WaitSecs) : WaitSecs[w] = 0
        /\ Posts[1].data.line = CurrentDupes[d_i].lines[c_i]
        /\ Posts[1].data.line # 0
        /\ PostOutcomes[1].exc = "none" => ~exited

C13_Step ==
    (pc \in {"post_searchterms", "post_groups"} /\ stack = <<>> /\ stack' # <<>>) =>
        IF d_i' = d_i
        THEN c_i' = c_i + 1 /\ comment_post = Status(422)
        ELSE d_i' = d_i + 1 /\ c_i' = 1

\* C13: each candidate line of a duplicate group gets one POST, on that line and
\* never file-scoped, with no backoff wait; the next candidate of the group is
\* posted only after a 422, the candidates are taken in their listed order, and
\* an answered POST does not end the run.
C13_Cycling == [](C13_State) /\ [][C13_Step]_vars

(***************************************************************************)
(* C15                                                                     *)
(***************************************************************************)
\* C15: after a POST without dupe_check that ended in a timeout, a connection
\* failure, 429 or 5xx, the client is in request_retry with the same request;
\* what it does next is a wait, and the POST after that carries the same path,
\* line and body.
C15_ReplaySame ==
    \A i \in 1..Len(log) :
        (IsPost(log[i]) /\ ~log[i].dupe_check /\ Transient(log[i].outcome)) =>
            /\ i = Len(log) =>
                  (stack # <<>> /\ Top.fn = "request_retry" /\ Data(Top) = log[i].data)
            /\ i < Len(log) => (IsWait(log[i + 1]) /\ log[i + 1].data = log[i].data)
            /\ i + 2 <= Len(log) =>
                  (IsPost(log[i + 2]) /\ log[i + 2].data = log[i].data)

C15_Witness ==
    /\ PlainRequest /\ Len(Posts) = 4
    /\ Posts[1].data.line = 2 /\ PostOutcomes[1] = Raised("Timeout")
    /\ Posts[2].data.line = 2 /\ PostOutcomes[2] = Status(422)
    /\ Posts[3].data.line = 0 /\ PostOutcomes[3] = Status(500)
    /\ Posts[4].data = Posts[3].data

(***************************************************************************)
(* C18                                                                     *)
(***************************************************************************)
\* C18: after a POST without dupe_check on a line # 0 that is answered 422, no
\* time is waited before the file-scoped POST, and that POST is made under the
\* same retry attempt count as the POST that was answered 422.
C18_ImmediateFallback ==
    \A i \in 1..Len(log) :
        (/\ IsPost(log[i]) /\ ~log[i].dupe_check
         /\ log[i].data.line # 0 /\ log[i].outcome = Status(422)) =>
            /\ (i < Len(log) /\ IsWait(log[i + 1])) => log[i + 1].secs = 0
            /\ i + 2 <= Len(log) => log[i + 2].timeout = log[i].timeout
            /\ i = Len(log) => ~exited

(***************************************************************************)
(* C20                                                                     *)
(***************************************************************************)
C20_State == comment_post.exc = "Exception" => (exited /\ exit_code = 1)

C20_Step == exited => (exited' /\ ~PostStep /\ log' = log /\ stack' = stack)

\* C20: a POST, with or without dupe_check, that ends in an exception other
\* than a timeout, a connection failure or an HTTP error status ends the
\* process with status 1 in the same step, and a process that has exited issues
\* no POST and makes no retry.
C20_UnexpectedFatal == [](C20_State) /\ [][C20_Step]_vars

C20_Witness ==
    /\ exited /\ exit_code = 1
    /\ comment_post = Raised("Exception")
    /\ stack # <<>> /\ Top.fn = "add_comment" /\ Top.dupe_check
    /\ pc = "post_groups"

(***************************************************************************)
(* The searchTerm check over documents given by their entries             *)
(* {"searchTerm": "<value>"}: the array each lies under and its line      *)
(***************************************************************************)
ScanEntries == [under : {"titles", "supersets"}, value : {"Foo", "Bar"}, line : 1..MaxLine]

\* the entries of a document, in document order
ScanLayouts ==
    {es \in SeqsUpTo(ScanEntries, MaxEntries) :
        \A i \in 1..(Len(es) - 1) : es[i].line <= es[i + 1].line}

UnderTitles(entry) == entry.under = "titles"

\* line 409: the matches of $..titles..searchTerm
TitlesSearchterms(es) ==
    LET ts == SelectSeq(es, UnderTitles) IN [i \in 1..Len(ts) |-> ts[i].value]

\* the text: each line with the fragments written on it
LayoutText(es) ==
    [i \in 1..MaxLine |->
        {Fragment("searchTerm", es[j].value) : j \in {k \in 1..Len(es) : es[k].line = i}}]

ScanDocuments ==
    {[parse |-> "ok", lineno |-> 0, errors |-> <<>>,
      titles_searchterms |-> TitlesSearchterms(es), groups |-> <<>>,
      cloneliststr |-> LayoutText(es)] : es \in ScanLayouts}

\* lines 407-427 on the document read
ScanSearchterms ==
    /\ Running
    /\ pc = "scan_searchterms"
    /\ \E order \in Orders(Dupes(doc.titles_searchterms)) :
        searchterm_dupes' = DupeLines(doc.cloneliststr, "searchTerm", order)
    /\ pc' = "scanned"
    /\ UNCHANGED <<errorLocals, files, fi, doc, error_messages, em_i, group_dupes, d_i, c_i,
                   response, test_succeeded, verdicts, docs_clean, clientVars, exited,
                   exit_code, tracing>>

InitScan ==
    /\ files = <<FileName(1)>>
    /\ fi = 1
    /\ pc = "scan_searchterms"
    /\ doc \in ScanDocuments
    /\ tracing = FALSE
    /\ InitRest

NextScan == ScanSearchterms

SpecScan == InitScan /\ [][NextScan]_vars

(***************************************************************************)
(* C14                                                                     *)
(***************************************************************************)
\* how often a value occurs in a sequence
Count(values, v) == Cardinality({i \in 1..Len(values) : values[i] = v})

\* C14: for a document in which Foo is the searchTerm of exactly two title
\* entries, the searchTerm check yields exactly one group keyed Foo, with
\* exactly two lines, in ascending order.
C14_TwoEntriesTwoLines ==
    (pc = "scanned" /\ Count(doc.titles_searchterms, "Foo") = 2) =>
        /\ Cardinality({k \in 1..Len(searchterm_dupes) : searchterm_dupes[k].key = "Foo"}) = 1
        /\ \A k \in 1..Len(searchterm_dupes) :
              searchterm_dupes[k].key = "Foo" =>
                  /\ Len(searchterm_dupes[k].lines) = 2
                  /\ searchterm_dupes[k].lines[1] < searchterm_dupes[k].lines[2]

(***************************************************************************)
(* The list of changed files (main, lines 200-226)                        *)
(***************************************************************************)
ChangedPaths ==
    {FileName(1), <<"clonelists", "/", "hash.json">>, <<"hash.json">>,
     <<"scripts", "/", "clone_list_validate.py">>}

\* what git diff --name-only can list: paths, none twice
ChangedLists ==
    {l \in SeqsUpTo(ChangedPaths, MaxChanged) :
        \A i \in 1..Len(l) : \A j \in 1..Len(l) : l[i] = l[j] => i = j}

\* 'clonelists' in x
HasMarker(x) == \E i \in 1..Len(x) : x[i] = "clonelists"

\* lines 200-226: the uncommitted changes or else those of the last commit,
\* filtered by the marker
GitDiff ==
    /\ Running
    /\ pc = "diff"
    /\ \E uncommitted \in ChangedLists, committed \in ChangedLists :
        LET first == SelectSeq(uncommitted, HasMarker)
        IN  files' = SelectSeq(IF first = <<>> THEN committed ELSE first, HasMarker)
    /\ pc' = "for"
    /\ UNCHANGED <<errorLocals, fi, doc, error_messages, em_i, searchterm_dupes, group_dupes,
                   d_i, c_i, response, test_succeeded, verdicts, docs_clean, clientVars,
                   exited, exit_code, tracing>>

InitChanged ==
    /\ files = <<>>
    /\ fi = 0
    /\ pc = "diff"
    /\ doc = NoDocument
    /\ tracing = FALSE
    /\ InitRest

NextChanged ==
    \/ GitDiff
    \/ Next

SpecChanged == InitChanged /\ [][NextChanged]_vars

(***************************************************************************)
(* C16                                                                     *)
(***************************************************************************)
\* the file of the for loop is being validated or annotated
Validating == fi >= 1 /\ pc \notin {"diff", "for", "end"}

\* C16: a file that is validated or annotated has the marker clonelists in its
\* path, and its filename is not hash.json.
C16_Filtering ==
    Validating => /\ HasMarker(files[fi])
                  /\ files[fi][Len(files[fi])] # "hash.json"

(***************************************************************************)
(* The resolution of one error's comment and lookup path, over error      *)
(* paths of keys and indices and over the comments the schema can hold    *)
(***************************************************************************)
PathSteps == {"variants", "titles", "filters", "conditions"} \cup Indices

ResolveErrors ==
    [json_path : {JsonPath(steps) : steps \in SeqsUpTo(PathSteps, MaxPath)}, line : {1},
     schema_comment : {<<>>}, parent_comments : {<<>>},
     local_names_str : {<<>>}, region_names_str : {<<>>}, message : {"m"}]
    \cup
    [json_path : {JsonPath(<<"variants", "0", "group">>)}, line : {1},
     schema_comment : {<<>>, << <<>> >>, << <<"A">> >>},
     parent_comments : {<<>>, << <<"P">> >>, << <<>>, <<"Q">> >>, << <<"P">>, <<"Q">> >>},
     local_names_str : {<<>>}, region_names_str : {<<>>}, message : {"m"}]

ResolveDocuments ==
    {[parse |-> "ok", lineno |-> 0, errors |-> <<e>>, titles_searchterms |-> <<"Foo">>,
      groups |-> <<"G">>, cloneliststr |-> TextOf([n |-> 1, literal |-> TRUE],
                                                  [n |-> 1, literal |-> TRUE])] :
        e \in ResolveErrors}

InitResolve ==
    /\ files = <<FileName(1)>>
    /\ fi = 1
    /\ pc = "iter_errors"
    /\ doc \in ResolveDocuments
    /\ tracing = FALSE
    /\ InitRest

SpecResolve == InitResolve /\ [][NextMerge]_vars

(***************************************************************************)
(* C17                                                                     *)
(***************************************************************************)
\* C17: the comment resolved for an error is the $comment of its schema node
\* when the node has one; else the first comment the parent lookup found; else
\* the empty string; it is the comment of the error's line.
C17_Priority ==
    (pc = "iter_errors" /\ em_i = 1) =>
        LET error == doc.errors[1]
        IN  /\ error.schema_comment # <<>> => comment = error.schema_comment[1]
            /\ (error.schema_comment = <<>> /\ error.parent_comments # <<>>)
                  => comment = error.parent_comments[1]
            /\ (error.schema_comment = <<>> /\ error.parent_comments = <<>>)
                  => comment = <<>>
            /\ error_messages = <<[line |-> error.line, comment |-> comment,
                                   errors |-> <<error.message>>]>>

C17_Witness ==
    /\ pc = "iter_errors" /\ em_i = 1
    /\ doc.errors[1].schema_comment = << <<"A">> >>
    /\ doc.errors[1].parent_comments = << <<"P">>, <<"Q">> >>
    /\ comment = <<"A">>

(***************************************************************************)
(* C19                                                                     *)
(***************************************************************************)
IsKey(token) == token \notin ({"$", ".", "[", "]"} \cup Indices)

\* the keys of an error path, without the array indices
KeysOf(json_path) == SelectSeq(json_path, IsKey)

\* the descendant search for a chain of keys, ending in the comment key
Descend(keys) ==
    <<"$">> \o Flatten([i \in 1..Len(keys) |-> <<"..", keys[i]>>]) \o <<CommentKey>>

\* keys[i..i+2] are variants, titles, filters
TraversesAt(keys, i) ==
    /\ i + 2 <= Len(keys)
    /\ keys[i] = "variants" /\ keys[i + 1] = "titles" /\ keys[i + 2] = "filters"

\* the keys without the titles of every variants, titles, filters
RECURSIVE TitlesElided(_, _)
TitlesElided(keys, i) ==
    IF i > Len(keys) THEN <<>>
    ELSE IF i >= 2 /\ TraversesAt(keys, i - 1) THEN TitlesElided(keys, i + 1)
    ELSE <<keys[i]>> \o TitlesElided(keys, i + 1)

\* the keys without every adjacent pair variants, titles
RECURSIVE PairsElided(_, _)
PairsElided(keys, i) ==
    IF i > Len(keys) THEN <<>>
    ELSE IF i < Len(keys) /\ keys[i] = "variants" /\ keys[i + 1] = "titles"
    THEN PairsElided(keys, i + 2)
    ELSE <<keys[i]>> \o PairsElided(keys, i + 1)

\* C19 (as claimed): the lookup path is the descendant search for the keys of
\* the error path; where the error path traverses variants, titles, filters,
\* exactly the titles segment is left out.
C19_TitlesOnly ==
    (pc = "iter_errors" /\ em_i = 1) =>
        parent_comment_json_path = Descend(TitlesElided(KeysOf(doc.errors[1].json_path), 1))

\* C19 (amended): the lookup path is the descendant search for the keys of the
\* error path; when the error path begins with variants, titles, filters and a
\* further key follows filters, every adjacent pair variants, titles is left
\* out, both segments; otherwise no segment is left out.
C19_PairElidedBelowFilters ==
    (pc = "iter_errors" /\ em_i = 1) =>
        LET keys == KeysOf(doc.errors[1].json_path)
        IN  parent_comment_json_path =
                IF TraversesAt(keys, 1) /\ Len(keys) >= 4
                THEN Descend(PairsElided(keys, 1))
                ELSE Descend(keys)

C19_Witness ==
    /\ pc = "iter_errors" /\ em_i = 1
    /\ doc.errors[1].json_path = JsonPath(<<"variants", "0", "titles", "filters", "conditions">>)
    /\ parent_comment_json_path = <<"$", "..", "filters", "..", "conditions", CommentKey>>

(***************************************************************************)
(* scripts/clone_list_clean.py: the baseline of minimumVersion.  A string *)
(* is the sequence of its character codes; doc is the clone list read.    *)
(***************************************************************************)
\* the code of the character '.', and of the digit d
Dot == 46
DigitChar(d) == 48 + d

\* str(n) for a natural number
RECURSIVE Decimal(_)
Decimal(n) == IF n < 10 THEN <<DigitChar(n)>> ELSE Decimal(n \div 10) \o <<DigitChar(n % 10)>>

\* the text major.minor.patch
VersionString(version) ==
    Decimal(version[1]) \o <<Dot>> \o Decimal(version[2]) \o <<Dot>> \o Decimal(version[3])

\* a < b for two str, as Python compares them: by the first character that differs
RECURSIVE StrLess(_, _)
StrLess(a, b) ==
    IF b = <<>> THEN FALSE
    ELSE IF a = <<>> THEN TRUE
    ELSE IF Head(a) # Head(b) THEN Head(a) < Head(b)
    ELSE StrLess(Tail(a), Tail(b))

\* clone_list_clean.py, line 51: baseline = 2.4.0
Baseline == VersionString(<<2, 4, 0>>)

\* the descriptions of clone lists: with or without a minimumVersion
Descriptions ==
    {[name |-> "list"]}
    \cup {[name |-> "list", minimumVersion |-> VersionString(v)] :
            v \in (0..MaxVersion) \X (0..MaxVersion) \X (0..MaxVersion)}

\* clone_list_clean.py, lines 51-54
SetMinimumVersion(description) ==
    IF "minimumVersion" \in DOMAIN description
    THEN IF StrLess(description.minimumVersion, Baseline)
         THEN [description EXCEPT !.minimumVersion = Baseline]
         ELSE description
    ELSE description

\* clone_list_clean.py, lines 29-54, for the description of the file read
CleanDescription ==
    /\ Running
    /\ pc = "clean"
    /\ doc' = [doc EXCEPT !.description = SetMinimumVersion(@)]
    /\ pc' = "cleaned"
    /\ UNCHANGED <<errorLocals, files, fi, error_messages, em_i, searchterm_dupes,
                   group_dupes, d_i, c_i, response, test_succeeded, verdicts, docs_clean,
                   clientVars, exited, exit_code, tracing>>

\* a clone list read, with the description it had when read
InitClean ==
    /\ files = <<FileName(1)>>
    /\ fi = 1
    /\ pc = "clean"
    /\ \E d \in Descriptions : doc = [description |-> d, read |-> d]
    /\ tracing = FALSE
    /\ InitRest

NextClean == CleanDescription

SpecClean == InitClean /\ [][NextClean]_vars

(***************************************************************************)
(* C26                                                                     *)
(***************************************************************************)
\* the number a text of digits stands for
RECURSIVE Number(_)
Number(s) ==
    IF s = <<>> THEN 0 ELSE 10 * Number(SubSeq(s, 1, Len(s) - 1)) + (s[Len(s)] - DigitChar(0))

\* the position of the k-th '.' of a text (0 for k = 0, past its end when it has fewer)
RECURSIVE DotAt(_, _)
DotAt(s, k) ==
    IF k = 0 THEN 0
    ELSE LET from == DotAt(s, k - 1) + 1
             dots == {i \in from..Len(s) : s[i] = Dot}
         IN  IF dots = {} THEN Len(s) + 1 ELSE CHOOSE i \in dots : \A j \in dots : i <= j

\* major, minor and patch of the text major.minor.patch
VersionOf(s) ==
    [k \in 1..3 |-> Number(SubSeq(s, DotAt(s, k - 1) + 1, DotAt(s, k) - 1))]

\* v is at or above w in version order
AtLeast(v, w) ==
    \/ v[1] > w[1]
    \/ v[1] = w[1] /\ v[2] > w[2]
    \/ v[1] = w[1] /\ v[2] = w[2] /\ v[3] >= w[3]

\* C26: after the canonicalizer has processed a description that has a
\* minimumVersion, the minimumVersion is at or above 2.4.0 in version order, and
\* one that was at or above 2.4.0 when read is unchanged.
C26_Baseline ==
    (pc = "cleaned" /\ "minimumVersion" \in DOMAIN doc.read) =>
        /\ "minimumVersion" \in DOMAIN doc.description
        /\ AtLeast(VersionOf(doc.description.minimumVersion), <<2, 4, 0>>)
        /\ AtLeast(VersionOf(doc.read.minimumVersion), <<2, 4, 0>>)
              => doc.description.minimumVersion = doc.read.minimumVersion

(***************************************************************************)
(* C25                                                                     *)
(***************************************************************************)
\* C25: a valid-JSON file that holds a searchTerm value at two or more title
\* entries, or a group name at two or more variants, is not counted as clean
\* at line 524, and a run that has read a file that is not clean does not exit
\* with status 0.
C25_DuplicatesFail ==
    /\ (pc = "verdict" /\ (Dupes(doc.titles_searchterms) # {} \/ Dupes(doc.groups) # {}))
          => ~FileClean
    /\ (exited /\ ~docs_clean) => exit_code # 0

(***************************************************************************)
(* C24                                                                     *)
(***************************************************************************)
\* this step is a POST without dupe_check that is answered with a status that
\* no handler names
UnhandledStatusStep ==
    /\ PostStep
    /\ ~Top.dupe_check
    /\ comment_post'.exc = "none"
    /\ RaisesHTTPError(comment_post'.status_code)
    /\ comment_post'.status_code \notin {401, 404, 422, 429}
    /\ comment_post'.status_code \div 100 # 5

\* C24: a POST without dupe_check answered with an HTTP error status outside
\* 401, 404, 422, 429 and 5xx does not end the process and is not retried:
\* with that step control is back in main, so that the next POST, if any,
\* belongs to the next annotation.
C24_UnhandledStatus ==
    [][UnhandledStatusStep => (~exited' /\ stack' = <<>>)]_vars

(***************************************************************************)
(* C23                                                                     *)
(***************************************************************************)
\* C23: the request that main issues for an annotation has a line >= 1 and
\* the attempt count 0; a file-scoped POST follows a POST on a line # 0 that
\* was answered 422, or a file-scoped POST that itself came about so, and is
\* never made for an annotation that main requested with dupe_check.
C23_LineScope ==
    /\ (stack # <<>> /\ npost = 0) => (stack[1].line_number >= 1 /\ stack[1].timeout = 0)
    /\ Len(log) >= 1 => (IsPost(log[1]) /\ log[1].data.line >= 1 /\ log[1].timeout = 0)
    /\ \A i \in 1..Len(log) :
          (IsPost(log[i]) /\ log[i].data.line = 0) =>
              /\ i >= 3 /\ IsWait(log[i - 1]) /\ IsPost(log[i - 2])
              /\ \/ log[i - 2].data.line # 0 /\ log[i - 2].outcome = Status(422)
                 \/ log[i - 2].data.line = 0
              /\ ~log[1].dupe_check

(***************************************************************************)
(* Progress: what is left of the run, as a measure that every step of the *)
(* program lowers                                                         *)
(***************************************************************************)
Alive == IF exited THEN 0 ELSE 1

\* what is left of the request being served: attempts, and within an attempt
\* the POST before the retry
RequestRank ==
    IF stack = <<>> THEN 0
    ELSE 2 * (4 - Top.timeout) - (IF Top.fn = "request_retry" THEN 1 ELSE 0)

Stage ==
    CASE pc = "open" -> 9
      [] pc = "json_exit" -> 8
      [] pc = "post_errors" -> 8
      [] pc = "searchterms" -> 7
      [] pc = "post_searchterms" -> 6
      [] pc = "groups" -> 5
      [] pc = "post_groups" -> 4
      [] pc = "verdict" -> 3
      [] pc = "for" -> 2
      [] OTHER -> 1

\* the iterations left of the loops of main over annotations
LoopsLeft ==
    CASE pc = "post_errors" -> <<Len(error_messages) - em_i, 0>>
      [] pc \in {"post_searchterms", "post_groups"} ->
            <<Len(CurrentDupes) - d_i,
              IF d_i = 0 THEN 0 ELSE Len(CurrentDupes[d_i].lines) - c_i>>
      [] OTHER -> <<0, 0>>

Rank == <<Alive, Len(files) - fi, Stage>> \o LoopsLeft \o <<RequestRank>>

\* a is before b in the lexicographic order of tuples of natural numbers
LexLess(a, b) ==
    \E i \in 1..Len(a) : a[i] < b[i] /\ \A j \in 1..(i - 1) : a[j] = b[j]

(***************************************************************************)
(* C21                                                                     *)
(***************************************************************************)
\* request_retry has been entered and has not returned
InRetry == \E i \in 1..Len(stack) : stack[i].fn = "request_retry"

FirstRetry == CHOOSE i \in 1..Len(stack) :
                /\ stack[i].fn = "request_retry"
                /\ \A j \in 1..(i - 1) : stack[j].fn # "request_retry"

C21_State ==
    InRetry => /\ exited => exit_code = 1
               /\ ~exited => ENABLED (add_comment \/ request_retry)

C21_Step ==
    InRetry => /\ Len(stack') >= FirstRetry
               /\ stack'[FirstRetry].fn = "request_retry"
               /\ SubSeq(stack', 1, FirstRetry - 1) = SubSeq(stack, 1, FirstRetry - 1)
               /\ UNCHANGED mainVars
               /\ Alive' + RequestRank' < Alive + RequestRank

RECURSIVE Sum(_)
Sum(ns) == IF ns = <<>> THEN 0 ELSE Head(ns) + Sum(Tail(ns))

C22_State ==
    /\ \A i \in 1..Len(stack) : stack[i].timeout \in 0..3
    /\ \A i \in 1..Len(Posts) :
          /\ Posts[i].timeout \in 0..3
          /\ \A j \in 1..Len(Posts) : Posts[i].timeout = Posts[j].timeout => i = j
    /\ Len(Posts) <= 4
    /\ Sum(WaitSecs) <= 360
    /\ exited => exit_code \in {0, 1}
    /\ ~exited => ENABLED Next

\* C22: the attempt index of every call of add_comment and request_retry is in
\* 0..3; an annotation request has at most one POST per attempt index, at most
\* 4 POSTs and at most 360 s of waiting; the process terminates: until it has
\* exited it can take a step and every step lowers what is left of the run;
\* and it exits with status 0 or 1.
C22_BoundedRetry == [](C22_State) /\ [][LexLess(Rank', Rank)]_vars

C22_Witness ==
    /\ exited /\ exit_code = 1
    /\ Len(Posts) = 4 /\ Sum(WaitSecs) = 360
    /\ Posts[4].timeout = 3
    /\ Posts[1].dupe_check

====
